---- MODULE Spec2Model ----
(***************************************************************************)
(* A model of package automata (src/automata/automata.go): building an     *)
(* automaton from transition triples (MakeAutomata / AddTransition /       *)
(* CreateNode), the epsilon closure, the subset construction (ToDFA /      *)
(* recursiveMerge / makeCompositNode) and the two acceptance procedures    *)
(* (DFAaccepts, and Accepts with its acceptsRoutine goroutines).           *)
(*                                                                         *)
(* Go values are modelled as Go defines them.  A node is a struct VALUE    *)
(* (Name, Transitions, Final): assigning or storing a node copies Name and *)
(* Final and shares the Transitions map, which is a reference.  Maps live  *)
(* in `heap`; a node holds the index of its map, 0 being the nil map.      *)
(* Reading a nil map yields the zero value, writing to it panics.  A panic *)
(* in any goroutine ends the program.                                      *)
(*                                                                         *)
(* Strings that are concatenated and sorted (node names) are sequences of  *)
(* letter codes: "S0" is <<0>>, "S1" is <<1>>, the composite "S0S1" is     *)
(* <<0, 1>>.  Input symbols are TLA+ strings, " " being epsilon.           *)
(*                                                                         *)
(* Three expressions of the file do not type-check in Go and are read as   *)
(* their surrounding code uses them:                                       *)
(*   checked (line 110/138)   a map from node name to a map keyed by the   *)
(*                            CONTENT of the remaining input (line 162);   *)
(*   head.EpsilonTransition   head.Transitions[" "] (lines 175, 190);      *)
(*   nextNodes, err := head.GetNext(..)   err is non-nil exactly when      *)
(*                            GetNext found no entry for the symbol        *)
(*                            (its `!ok` branch, line 307).                *)
(***************************************************************************)
EXTENDS Integers, Sequences, FiniteSets, TLC

VARIABLES
    arg,        \* what the caller does: [ts, start, finals, build, det]
    heap,       \* Seq of transition maps; a map is a function symbol -> Seq(node)
    aut,        \* the source automata value: [nodes, beginning]
    dfa,        \* the automata value recursiveMerge fills
    pc,         \* position of the calling goroutine
    idx,        \* MakeAutomata: index of the next triple of the range loop
    stack,      \* recursiveMerge: the frames of the calls in progress
    word,       \* the input sequence handed to DFAaccepts and Accepts
    dfaResult,  \* what DFAaccepts returned: "none", "true", "false"
    found,      \* Accepts: TRUE when channel found is closed
    done,       \* Accepts: TRUE when channel done is closed
    wg,         \* Accepts: the WaitGroup counter
    checked,    \* Accepts: node name -> set of inputs (the inner maps)
    tasks,      \* Accepts: Seq of acceptsRoutine goroutines [node, input, pc, ..]
    waiter,     \* Accepts: position of the goroutine of lines 118-121
    result,     \* what Accepts returned: "none", "true", "false"
    panic       \* "" or the runtime panic that ended the program

vars == <<arg, heap, aut, dfa, pc, idx, stack, word, dfaResult, found, done,
          wg, checked, tasks, waiter, result, panic>>

-----------------------------------------------------------------------------
(* Bounds of the inputs *)

MaxTransitions == 2
MaxInput == 2
\* the triples of an automaton whose goroutines run past line 167
MaxRoutineTransitions == 1

Eps == " "
Symbols == {Eps, "a", "b"}
Alphabet == {"a", "b"}

S0 == <<0>>
S1 == <<1>>
S2 == <<2>>
S3 == <<3>>
StateNames == {S0, S1}

-----------------------------------------------------------------------------
(* Go values *)

EmptyMap == [k \in {} |-> <<>>]

\* type node struct, and its zero value
Node(name, tr, final) == [Name |-> name, Transitions |-> tr, Final |-> final]
ZeroNode == Node(<<>>, 0, FALSE)

\* type automata struct; new(automata) leaves nodes the nil map
NewAutomata == [beginning |-> ZeroNode, nodes |-> [nil |-> TRUE, m |-> EmptyMap]]
MadeAutomata == [beginning |-> ZeroNode, nodes |-> [nil |-> FALSE, m |-> EmptyMap]]

\* v, ok := n.Transitions[key]
HasKey(h, n, key) == n.Transitions # 0 /\ key \in DOMAIN h[n.Transitions]
Lookup(h, n, key) == IF HasKey(h, n, key) THEN h[n.Transitions][key] ELSE <<>>

\* v, ok := automata.nodes[name]
Contains(a, name) == ~a.nodes.nil /\ name \in DOMAIN a.nodes.m
NodeAt(a, name) == IF Contains(a, name) THEN a.nodes.m[name] ELSE ZeroNode

Range(s) == {s[i] : i \in 1..Len(s)}

RECURSIVE Flatten(_)
Flatten(ss) == IF ss = <<>> THEN <<>> ELSE Head(ss) \o Flatten(Tail(ss))

-----------------------------------------------------------------------------
(* CreateNode, AddTransition *)

\* An operation's outcome: the automata, the heap, the returned value and the
\* panic it raised ("" if none).
Outcome(a, h, ret, p) == [aut |-> a, heap |-> h, ret |-> ret, panic |-> p]

NilMapWrite == "assignment to entry in nil map"

CreateNode(a, h, name) ==
    LET newNode == Node(name, Len(h) + 1, FALSE)
        h1 == Append(h, EmptyMap)
    IN  IF a.nodes.nil
        THEN Outcome(a, h1, newNode, NilMapWrite)
        ELSE Outcome([a EXCEPT !.nodes.m = (name :> newNode) @@ a.nodes.m],
                     h1, newNode, "")

AddTransition(a, h, t) ==
    LET containsStart == Contains(a, t[1])
        containsEnd == Contains(a, t[3])
        r1 == IF containsStart
              THEN Outcome(a, h, NodeAt(a, t[1]), "")
              ELSE CreateNode(a, h, t[1])
        r2 == IF r1.panic # "" THEN r1
              ELSE IF containsEnd
              THEN Outcome(r1.aut, r1.heap, NodeAt(a, t[3]), "")
              ELSE CreateNode(r1.aut, r1.heap, t[3])
        startNode == r1.ret
        endNode == r2.ret
        \* lines 77-83: end is a local slice; it is never stored in the map
        end == IF ~HasKey(r2.heap, startNode, t[2])
               THEN <<endNode>>
               ELSE Append(Lookup(r2.heap, startNode, t[2]), endNode)
    IN  [aut |-> r2.aut, heap |-> r2.heap, ret |-> endNode, panic |-> r2.panic,
         end |-> end]

-----------------------------------------------------------------------------
(* EpsilonClosure, GetNext, DFAaccepts *)

RECURSIVE epsilonRecursive(_, _, _)
RECURSIVE epsilonLoop(_, _, _)

\* A loop that records the epsilon successors without following them
RECURSIVE epsilonLoopDirect(_, _, _)
epsilonLoopDirect(h, succ, eTransitions) ==
    IF succ = <<>> THEN eTransitions
    ELSE LET n == Head(succ)
         IN  epsilonLoopDirect(h, Tail(succ),
                 IF n.Name \in DOMAIN eTransitions THEN eTransitions
                 ELSE (n.Name :> n) @@ eTransitions)

\* lines 334-339: the loop over inputNode.Transitions[" "]
epsilonLoop(h, succ, eTransitions) ==
    IF succ = <<>> THEN eTransitions
    ELSE LET n == Head(succ)
         IN  epsilonLoop(h, Tail(succ),
                 IF n.Name \in DOMAIN eTransitions THEN eTransitions
                 ELSE epsilonRecursive(h, n, eTransitions))

\* eTransitions is the map name -> node that the recursion fills
epsilonRecursive(h, inputNode, eTransitions) ==
    epsilonLoop(h, Lookup(h, inputNode, Eps),
        (inputNode.Name :> inputNode) @@
            [k \in DOMAIN eTransitions \ {inputNode.Name} |-> eTransitions[k]])

\* The nodes of the closure.  The slice EpsilonClosure returns holds them in
\* the iteration order of a Go map, which is any order: ClosureOrders.
EpsilonClosure(h, inputNode) ==
    LET eTransitions == epsilonRecursive(h, inputNode, EmptyMap)
    IN  {eTransitions[k] : k \in DOMAIN eTransitions}

Perms(S) ==
    {s \in [1..Cardinality(S) -> S] : \A x \in S : \E i \in DOMAIN s : s[i] = x}

ClosureOrders(h, inputNode) == Perms(EpsilonClosure(h, inputNode))

\* GetNext with the closure slice in order `closure`
GetNextIn(h, head, a, closure) ==
    LET ok == HasKey(h, head, a)
        nextNodes == Lookup(h, head, a) \o closure
    IN  IF ~ok THEN <<>> ELSE nextNodes

\* Every element but the first depends on the map's iteration order; callers
\* that read only nextNode[0] or the length may take any order.
GetNext(h, head, a) ==
    GetNextIn(h, head, a, CHOOSE c \in ClosureOrders(h, head) : TRUE)

RECURSIVE DFAaccepts(_, _, _)
DFAaccepts(h, head, input) ==
    IF Len(input) = 0 THEN head.Final
    ELSE LET nextLiteral == input[1]
             nextNode == GetNext(h, head, nextLiteral)
         IN  IF Len(nextNode) = 0 THEN FALSE
             ELSE DFAaccepts(h, nextNode[1], Tail(input))

-----------------------------------------------------------------------------
(* compositNodeName *)

RECURSIVE StrLess(_, _)
StrLess(x, y) ==
    IF y = <<>> THEN FALSE
    ELSE IF x = <<>> THEN TRUE
    ELSE IF Head(x) # Head(y) THEN Head(x) < Head(y)
    ELSE StrLess(Tail(x), Tail(y))

RECURSIVE SortInsert(_, _)
SortInsert(s, x) ==
    IF s = <<>> THEN <<x>>
    ELSE IF StrLess(x, Head(s)) THEN <<x>> \o s
    ELSE <<Head(s)>> \o SortInsert(Tail(s), x)

\* sort.Strings
RECURSIVE SortStrings(_)
SortStrings(names) ==
    IF names = <<>> THEN <<>>
    ELSE SortInsert(SortStrings(Tail(names)), Head(names))

compositNodeName(names) == Flatten(SortStrings(names))

-----------------------------------------------------------------------------
(* The caller's inputs *)

Triple(from, sym, to) == <<from, sym, to>>
Triples == {Triple(f, s, t) : f \in StateNames, s \in {Eps, "a"}, t \in StateNames}

SeqsUpTo(S, n) == UNION {[1..k -> S] : k \in 0..n}

\* Scenario A and Scenario B of the specification, section 8
ScenarioA == [ts |-> <<Triple(S0, "a", S1), Triple(S1, "b", S1)>>,
              start |-> S0, finals |-> {S1}]
ScenarioB == [ts |-> <<Triple(S0, Eps, S1), Triple(S0, "a", S2), Triple(S1, "b", S3)>>,
              start |-> S0, finals |-> {S2, S3}]

\* An epsilon cycle through three states with a nondeterministic symbol
ScenarioC == [ts |-> <<Triple(S0, Eps, S1), Triple(S1, Eps, S2), Triple(S2, Eps, S0),
                       Triple(S1, "a", S1), Triple(S1, "a", S2), Triple(S2, "b", S0)>>,
              start |-> S0, finals |-> {S2}]

Automatons ==
    {[ts |-> ts, start |-> st, finals |-> f] :
        ts \in SeqsUpTo(Triples, MaxTransitions), st \in StateNames,
        f \in SUBSET StateNames}
    \cup {ScenarioA, ScenarioB, ScenarioC}

Inputs == SeqsUpTo(Alphabet, MaxInput)

\* What the caller does with the triples: it calls MakeAutomata; or it calls
\* AddTransition for each triple on an automata whose nodes map it made; or
\* it holds the node values the triples denote ("literal") and goes on to
\* determinize them (ToDFA, or recursiveMerge on an automata whose nodes map
\* it made) or not, and to ask for acceptance; or ("acceptsRoutine") it does
\* what Accepts does, with a map `checked` whose inner maps it made.
Plans ==
    {[build |-> "MakeAutomata", det |-> d] : d \in {"none", "ToDFA"}}
    \cup {[build |-> "AddTransition", det |-> "none"]}
    \cup {[build |-> "literal", det |-> d] :
              d \in {"none", "ToDFA", "recursiveMerge", "acceptsRoutine"}}

AllNames == <<S0, S1, S2, S3>>
IdOf(name) == name[1] + 1

LiteralNode(g, name) == Node(name, IdOf(name), name \in g.finals)

LiteralDests(g, name, sym) ==
    LET sel == SelectSeq(g.ts, LAMBDA t : t[1] = name /\ t[2] = sym)
    IN  [i \in 1..Len(sel) |-> LiteralNode(g, sel[i][3])]

LiteralHeap(g) ==
    [i \in 1..Len(AllNames) |->
        [sym \in {s \in Symbols : LiteralDests(g, AllNames[i], s) # <<>>} |->
            LiteralDests(g, AllNames[i], sym)]]

LiteralAutomata(g) ==
    [beginning |-> LiteralNode(g, g.start),
     nodes |-> [nil |-> FALSE,
                m |-> [n \in Range(AllNames) |-> LiteralNode(g, n)]]]

Init ==
    /\ arg \in {[ts |-> g.ts, start |-> g.start, finals |-> g.finals,
                 build |-> p.build, det |-> p.det] :
                    g \in Automatons, p \in Plans}
    /\ arg.det = "acceptsRoutine" => Len(arg.ts) <= MaxRoutineTransitions
    /\ heap = IF arg.build = "literal" THEN LiteralHeap(arg) ELSE <<>>
    /\ aut = CASE arg.build = "literal" -> LiteralAutomata(arg)
               [] arg.build = "AddTransition" -> MadeAutomata
               [] OTHER -> NewAutomata
    /\ dfa = NewAutomata
    /\ pc = IF arg.build = "literal" THEN "built" ELSE "make_loop"
    /\ idx = 1
    /\ stack = <<>>
    /\ word = <<>>
    /\ dfaResult = "none"
    /\ found = FALSE
    /\ done = FALSE
    /\ wg = 0
    /\ checked = EmptyMap
    /\ tasks = <<>>
    /\ waiter = "idle"
    /\ result = "none"
    /\ panic = ""

Bool(b) == IF b THEN "true" ELSE "false"

-----------------------------------------------------------------------------
(* MakeAutomata *)

makeVars == <<arg, dfa, stack, word, dfaResult, found, done, wg, checked,
              tasks, waiter, result>>

\* lines 32-34: one iteration of the range loop
MakeAddTransition ==
    /\ panic = ""
    /\ pc = "make_loop"
    /\ idx <= Len(arg.ts)
    /\ LET r == AddTransition(aut, heap, arg.ts[idx])
       IN  /\ aut' = r.aut
           /\ heap' = r.heap
           /\ panic' = r.panic
    /\ idx' = idx + 1
    /\ UNCHANGED <<pc, makeVars>>

\* lines 36-48: finishNode is a copy of the entry of automata.nodes (the zero
\* node where there is none); Final is set on the copy, which is dropped
markFinal(a, finishStates) ==
    LET finishNode(name) == [NodeAt(a, name) EXCEPT !.Final = TRUE]
    IN  a

\* lines 36-59
MakeFinish ==
    /\ panic = ""
    /\ pc = "make_loop"
    /\ arg.build = "MakeAutomata"
    /\ idx > Len(arg.ts)
    /\ LET a1 == markFinal(aut, arg.finals)
           r == IF Contains(a1, arg.start)
                THEN Outcome(a1, heap, NodeAt(a1, arg.start), "")
                ELSE CreateNode(a1, heap, arg.start)
       IN  /\ heap' = r.heap
           /\ panic' = r.panic
           /\ IF r.panic # ""
              THEN aut' = r.aut /\ pc' = pc
              ELSE aut' = [r.aut EXCEPT !.beginning = r.ret] /\ pc' = "built"
    /\ UNCHANGED <<idx, makeVars>>

\* GetStart
GetStart(a) == a.beginning

-----------------------------------------------------------------------------
(* Accepts and acceptsRoutine *)

NegativeCounter == "sync: negative WaitGroup counter"
ClosedClose == "close of closed channel"
IndexRange == "index out of range"

\* A goroutine running acceptsRoutine: its receiver and input, its position,
\* the goroutines it has yet to start (lines 183-194), the number of times it
\* has called wg.Done(), and whether it has started a goroutine (it expands
\* its pair)
Task(node, inp) == [node |-> node, input |-> inp, pc |-> "poll", spawn |-> <<>>,
                    dones |-> 0, expanded |-> FALSE]

\* lines 104-127, up to the select
AcceptsCall ==
    /\ panic = ""
    /\ \/ pc = "built" /\ arg.det = "none" /\ word' \in Inputs
       \/ pc = "dfa_checked" /\ word' = word
    /\ found' = FALSE
    /\ checked' = EmptyMap
    /\ wg' = 1
    /\ done' = FALSE
    /\ waiter' = "wait"
    /\ tasks' = <<Task(GetStart(aut), word')>>
    /\ pc' = "select"
    /\ UNCHANGED <<arg, heap, aut, dfa, idx, stack, dfaResult, result, panic>>

\* lines 130-135: select takes any ready case
AcceptsSelect ==
    /\ panic = ""
    /\ pc = "select"
    /\ \/ done /\ result' = "false"
       \/ found /\ result' = "true"
    /\ pc' = "returned"
    /\ UNCHANGED <<arg, heap, aut, dfa, idx, stack, word, dfaResult, found,
                   done, wg, checked, tasks, waiter, panic>>

\* line 119: wg.Wait() returns once the counter is zero
WaiterWait ==
    /\ panic = ""
    /\ waiter = "wait"
    /\ wg = 0
    /\ waiter' = "close"
    /\ UNCHANGED <<arg, heap, aut, dfa, pc, idx, stack, word, dfaResult, found,
                   done, wg, checked, tasks, result, panic>>

\* line 120
WaiterClose ==
    /\ panic = ""
    /\ waiter = "close"
    /\ done' = TRUE
    /\ waiter' = "exit"
    /\ UNCHANGED <<arg, heap, aut, dfa, pc, idx, stack, word, dfaResult, found,
                   wg, checked, tasks, result, panic>>

taskFrame == <<arg, heap, aut, dfa, pc, idx, stack, word, dfaResult, done,
               waiter, result>>

\* wg.Add(delta): the counter, or the panic of a negative counter
WgAdd(counter, delta) ==
    IF counter + delta < 0
    THEN [wg |-> counter + delta, panic |-> NegativeCounter]
    ELSE [wg |-> counter + delta, panic |-> ""]

\* lines 143-151: the non-blocking receive on found
TaskPoll(i) ==
    /\ tasks[i].pc = "poll"
    /\ tasks' = [tasks EXCEPT ![i].pc = IF found THEN "exit" ELSE "len"]
    /\ UNCHANGED <<taskFrame, found, wg, checked, panic>>

\* lines 154-157
TaskLen(i) ==
    /\ tasks[i].pc = "len"
    /\ IF Len(tasks[i].input) = 0
       THEN /\ IF tasks[i].node.Final
               THEN IF found
                    THEN found' = found /\ panic' = ClosedClose
                    ELSE found' = TRUE /\ panic' = panic
               ELSE UNCHANGED <<found, panic>>
            /\ tasks' = [tasks EXCEPT ![i].pc = "done158"]
       ELSE /\ tasks' = [tasks EXCEPT ![i].pc = "check"]
            /\ UNCHANGED <<found, panic>>
    /\ UNCHANGED <<taskFrame, wg, checked>>

\* line 158: wg.Done(), with no return after it
TaskDoneEmpty(i) ==
    /\ tasks[i].pc = "done158"
    /\ LET r == WgAdd(wg, -1)
       IN  wg' = r.wg /\ panic' = r.panic
    /\ tasks' = [tasks EXCEPT ![i].pc = "check", ![i].dones = @ + 1]
    /\ UNCHANGED <<taskFrame, found, checked>>

\* checked[name][inp]: reading a missing inner map yields false
Checked(c, name, inp) == name \in DOMAIN c /\ inp \in c[name]

\* lines 163-166: the read of the visited set
TaskCheck(i) ==
    /\ tasks[i].pc = "check"
    /\ IF Checked(checked, tasks[i].node.Name, tasks[i].input)
       THEN /\ LET r == WgAdd(wg, -1)
               IN  wg' = r.wg /\ panic' = r.panic
            /\ tasks' = [tasks EXCEPT ![i].pc = "exit", ![i].dones = @ + 1]
       ELSE /\ tasks' = [tasks EXCEPT ![i].pc = "insert"]
            /\ UNCHANGED <<wg, panic>>
    /\ UNCHANGED <<taskFrame, found, checked>>

\* line 167: checked[name][inp] = true.  Accepts never makes the inner map
\* checked[name], so in a call of Accepts the write is to a nil map.
CheckedInsert(c, name, inp) ==
    IF name \in DOMAIN c
    THEN [checked |-> [c EXCEPT ![name] = c[name] \cup {inp}], panic |-> ""]
    ELSE [checked |-> c, panic |-> NilMapWrite]

\* lines 183-194: the goroutines started, symbol successors on input[1:]
\* first, then the epsilon successors on the whole input
Children(h, head, inp, closure) ==
    LET nextNodes == GetNextIn(h, head, inp[1], closure)
        eTransition == Lookup(h, head, Eps)
    IN  [k \in 1..Len(nextNodes) |-> Task(nextNodes[k], Tail(inp))]
        \o [k \in 1..Len(eTransition) |-> Task(eTransition[k], inp)]

\* line 167
TaskInsert(i) ==
    /\ tasks[i].pc = "insert"
    /\ LET ins == CheckedInsert(checked, tasks[i].node.Name, tasks[i].input)
       IN  /\ checked' = ins.checked
           /\ panic' = ins.panic
           /\ tasks' = IF ins.panic # "" THEN tasks
                       ELSE [tasks EXCEPT ![i].pc = "next"]
    /\ UNCHANGED <<taskFrame, found, wg>>

\* lines 171-180: input[0], GetNext, and the return where there is nothing
\* to start; otherwise the goroutines of lines 183-194 are yet to be started
TaskExpand(i) ==
    /\ tasks[i].pc = "next"
    /\ LET head == tasks[i].node
           inp == tasks[i].input
       IN  IF Len(inp) = 0
           THEN panic' = IndexRange /\ UNCHANGED <<tasks, wg>>
           ELSE \E closure \in ClosureOrders(heap, head) :
                  LET err == ~HasKey(heap, head, inp[1])
                      eTransition == Lookup(heap, head, Eps)
                  IN  IF err /\ Len(eTransition) = 0
                      THEN LET r == WgAdd(wg, -1)
                           IN  /\ wg' = r.wg
                               /\ panic' = r.panic
                               /\ tasks' = [tasks EXCEPT ![i].pc = "exit",
                                                         ![i].dones = @ + 1]
                      ELSE /\ tasks' = [tasks EXCEPT ![i].pc = "go",
                                  ![i].spawn = Children(heap, head, inp, closure)]
                           /\ UNCHANGED <<wg, panic>>
    /\ UNCHANGED <<taskFrame, found, checked>>

\* lines 185 and 192: the go statement, which precedes wg.Add(1)
TaskGo(i) ==
    /\ tasks[i].pc = "go"
    /\ tasks' = Append([tasks EXCEPT ![i].pc = "add", ![i].expanded = TRUE],
                       Head(tasks[i].spawn))
    /\ UNCHANGED <<taskFrame, found, wg, checked, panic>>

\* lines 186 and 193: wg.Add(1) for the goroutine just started
TaskAdd(i) ==
    /\ tasks[i].pc = "add"
    /\ LET r == WgAdd(wg, 1)
       IN  wg' = r.wg /\ panic' = r.panic
    /\ tasks' = [tasks EXCEPT ![i].spawn = Tail(@),
                              ![i].pc = IF Len(tasks[i].spawn) > 1 THEN "go"
                                        ELSE "done196"]
    /\ UNCHANGED <<taskFrame, found, checked>>

\* line 196
TaskDone(i) ==
    /\ tasks[i].pc = "done196"
    /\ LET r == WgAdd(wg, -1)
       IN  wg' = r.wg /\ panic' = r.panic
    /\ tasks' = [tasks EXCEPT ![i].pc = "exit", ![i].dones = @ + 1]
    /\ UNCHANGED <<taskFrame, found, checked>>

\* Any goroutine that is runnable may take its next step.
AcceptsRoutinePoll == panic = "" /\ \E i \in DOMAIN tasks : TaskPoll(i)
AcceptsRoutineLen == panic = "" /\ \E i \in DOMAIN tasks : TaskLen(i)
AcceptsRoutineDoneEmpty == panic = "" /\ \E i \in DOMAIN tasks : TaskDoneEmpty(i)
AcceptsRoutineCheck == panic = "" /\ \E i \in DOMAIN tasks : TaskCheck(i)
AcceptsRoutineInsert == panic = "" /\ \E i \in DOMAIN tasks : TaskInsert(i)
AcceptsRoutineExpand == panic = "" /\ \E i \in DOMAIN tasks : TaskExpand(i)
AcceptsRoutineGo == panic = "" /\ \E i \in DOMAIN tasks : TaskGo(i)
AcceptsRoutineAdd == panic = "" /\ \E i \in DOMAIN tasks : TaskAdd(i)
AcceptsRoutineDone == panic = "" /\ \E i \in DOMAIN tasks : TaskDone(i)

\* A caller in the package that does what Accepts does (lines 104-127) with
\* a map `checked` that holds an inner map for every node name
RoutineCall ==
    /\ panic = ""
    /\ pc = "built"
    /\ arg.det = "acceptsRoutine"
    /\ word' \in Inputs
    /\ found' = FALSE
    /\ checked' = [n \in Range(AllNames) |-> {}]
    /\ wg' = 1
    /\ done' = FALSE
    /\ waiter' = "wait"
    /\ tasks' = <<Task(GetStart(aut), word')>>
    /\ pc' = "routine"
    /\ UNCHANGED <<arg, heap, aut, dfa, idx, stack, dfaResult, result, panic>>

\* and its select (lines 130-135)
RoutineSelect ==
    /\ panic = ""
    /\ pc = "routine"
    /\ \/ done /\ result' = "false"
       \/ found /\ result' = "true"
    /\ pc' = "routine_returned"
    /\ UNCHANGED <<arg, heap, aut, dfa, idx, stack, word, dfaResult, found,
                   done, wg, checked, tasks, waiter, panic>>

-----------------------------------------------------------------------------
(* ToDFA, recursiveMerge, makeCompositNode *)

\* The slices makeCompositNode can build in `nodes` (lines 254-259): the
\* closure of head in any order, each member replaced by its own closure in
\* any order.  Members repeat.
MergeLists(h, head) ==
    LET members == EpsilonClosure(h, head)
        orders == UNION {ClosureOrders(h, m) : m \in members}
    IN  UNION {
            {Flatten(f) : f \in {g \in [1..Len(startNodes) -> orders] :
                                   \A k \in 1..Len(startNodes) :
                                      g[k] \in ClosureOrders(h, startNodes[k])}}
            : startNodes \in Perms(members)}

\* lines 262-266
compositName(nodes) == compositNodeName([k \in 1..Len(nodes) |-> nodes[k].Name])

\* lines 221-233: every key of every merged node is assigned, in the order of
\* mergedNodes, the merged node's own slice appended to itself
RECURSIVE mergeTransitions(_, _, _)
mergeTransitions(h, mergedNodes, trans) ==
    IF mergedNodes = <<>> THEN trans
    ELSE LET mergedNode == Head(mergedNodes)
             keys == IF mergedNode.Transitions = 0 THEN {}
                     ELSE DOMAIN h[mergedNode.Transitions]
             assigned == [k \in keys |->
                             Lookup(h, mergedNode, k) \o Lookup(h, mergedNode, k)]
         IN  mergeTransitions(h, Tail(mergedNodes),
                 assigned @@ [k \in DOMAIN trans \ keys |-> trans[k]])

\* lines 236-241
mergedFinal(mergedNodes) == \E k \in 1..Len(mergedNodes) : mergedNodes[k].Final

Frame(node, pending) == [node |-> node, pending |-> pending, cur |-> ""]

\* A recursiveMerge whose composite node takes over the transition map of the
\* first merged node instead of the map CreateNode made
mergeEnterInPlace(d, h, nodes) ==
    LET newName == compositName(nodes)
    IN  IF Contains(d, newName)
        THEN [dfa |-> d, heap |-> h, exists |-> TRUE, ret |-> NodeAt(d, newName),
              frame |-> Frame(ZeroNode, {}), panic |-> ""]
        ELSE LET r == CreateNode(d, h, newName)
                 shared == [r.ret EXCEPT !.Transitions = nodes[1].Transitions]
                 trans == mergeTransitions(r.heap, nodes, EmptyMap)
                 h1 == [r.heap EXCEPT ![shared.Transitions] = trans]
                 returnNode == [shared EXCEPT !.Final = mergedFinal(nodes)]
             IN  IF r.panic # ""
                 THEN [dfa |-> r.aut, heap |-> r.heap, exists |-> FALSE,
                       ret |-> ZeroNode, frame |-> Frame(ZeroNode, {}),
                       panic |-> r.panic]
                 ELSE [dfa |-> [r.aut EXCEPT !.nodes.m[newName] = shared],
                       heap |-> h1, exists |-> FALSE, ret |-> ZeroNode,
                       frame |-> Frame(returnNode, DOMAIN trans), panic |-> ""]

\* lines 209-241 of one call of recursiveMerge on automata d, with `nodes`
\* the slice makeCompositNode built.  Either the composite exists and its
\* copy in d.nodes is returned (exists), or a node is created and filled and
\* the call goes on to its loop of line 244 (frame).
mergeEnter(d, h, nodes) ==
    LET newName == compositName(nodes)
    IN  IF Contains(d, newName)
        THEN [dfa |-> d, heap |-> h, exists |-> TRUE, ret |-> NodeAt(d, newName),
              frame |-> Frame(ZeroNode, {}), panic |-> ""]
        ELSE LET r == CreateNode(d, h, newName)
                 trans == mergeTransitions(r.heap, nodes, EmptyMap)
                 h1 == [r.heap EXCEPT ![r.ret.Transitions] = trans]
                 returnNode == [r.ret EXCEPT !.Final = mergedFinal(nodes)]
             IN  IF r.panic # ""
                 THEN [dfa |-> r.aut, heap |-> r.heap, exists |-> FALSE,
                       ret |-> ZeroNode, frame |-> Frame(ZeroNode, {}),
                       panic |-> r.panic]
                 ELSE [dfa |-> r.aut, heap |-> h1, exists |-> FALSE,
                       ret |-> ZeroNode,
                       frame |-> Frame(returnNode, DOMAIN trans), panic |-> ""]

mergeVars == <<arg, aut, idx, word, dfaResult, found, done, wg, checked, tasks,
               waiter, result>>

\* lines 200-202: DFA := new(automata), and the call of recursiveMerge on
\* NFA.beginning up to its loop of line 244.  With det = "recursiveMerge" the
\* caller runs the same two lines on an automata whose nodes map it made.
ToDFA ==
    /\ panic = ""
    /\ pc = "built"
    /\ arg.det # "none"
    /\ \E nodes \in MergeLists(heap, aut.beginning) :
        LET d == IF arg.det = "ToDFA" THEN NewAutomata ELSE MadeAutomata
            r == mergeEnter(d, heap, nodes)
        IN  /\ dfa' = r.dfa
            /\ heap' = r.heap
            /\ panic' = r.panic
            /\ stack' = IF r.panic = "" THEN <<r.frame>> ELSE stack
    /\ pc' = "merge"
    /\ UNCHANGED mergeVars

\* lines 244-246: one iteration of the range over returnNode.Transitions, up
\* to the loop of line 244 of the call it makes
MergeRecurse ==
    /\ panic = ""
    /\ pc = "merge"
    /\ stack # <<>>
    /\ LET top == Len(stack)
           returnNode == stack[top].node
       IN  \E inputKey \in stack[top].pending :
             LET newNode == heap[returnNode.Transitions][inputKey]
             IN  \E nodes \in MergeLists(heap, newNode[1]) :
                   LET r == mergeEnter(dfa, heap, nodes)
                   IN  /\ dfa' = r.dfa
                       /\ panic' = r.panic
                       /\ IF r.exists
                          THEN /\ heap' = [r.heap EXCEPT
                                     ![returnNode.Transitions][inputKey] = <<r.ret>>]
                               /\ stack' = [stack EXCEPT ![top].pending =
                                               @ \ {inputKey}]
                          ELSE /\ heap' = r.heap
                               /\ stack' = IF r.panic # "" THEN stack
                                     ELSE Append([stack EXCEPT ![top].cur = inputKey],
                                                 r.frame)
    /\ UNCHANGED <<pc, mergeVars>>

\* line 249, and the assignment that receives the value: line 246 in the
\* calling recursiveMerge, line 202 in ToDFA
MergeReturn ==
    /\ panic = ""
    /\ pc = "merge"
    /\ stack # <<>>
    /\ stack[Len(stack)].pending = {}
    /\ LET top == Len(stack)
           ret == stack[top].node
       IN  IF top = 1
           THEN /\ dfa' = [dfa EXCEPT !.beginning = ret]
                /\ stack' = <<>>
                /\ pc' = "dfa"
                /\ heap' = heap
           ELSE LET caller == stack[top - 1]
                IN  /\ heap' = [heap EXCEPT
                           ![caller.node.Transitions][caller.cur] = <<ret>>]
                    /\ stack' = [SubSeq(stack, 1, top - 1) EXCEPT
                           ![top - 1].pending = @ \ {caller.cur},
                           ![top - 1].cur = ""]
                    /\ UNCHANGED <<dfa, pc>>
    /\ UNCHANGED <<mergeVars, panic>>

\* DFAaccepts on the start state of the automaton ToDFA returned
DFAacceptsCall ==
    /\ panic = ""
    /\ pc = "dfa"
    /\ \E w \in Inputs :
        /\ word' = w
        /\ dfaResult' = Bool(DFAaccepts(heap, GetStart(dfa), w))
    /\ pc' = "dfa_checked"
    /\ UNCHANGED <<arg, heap, aut, dfa, idx, stack, found, done, wg, checked,
                   tasks, waiter, result, panic>>

-----------------------------------------------------------------------------

Next ==
    \/ MakeAddTransition
    \/ MakeFinish
    \/ ToDFA
    \/ MergeRecurse
    \/ MergeReturn
    \/ DFAacceptsCall
    \/ AcceptsCall
    \/ AcceptsSelect
    \/ WaiterWait
    \/ WaiterClose
    \/ AcceptsRoutinePoll
    \/ AcceptsRoutineLen
    \/ AcceptsRoutineDoneEmpty
    \/ AcceptsRoutineCheck
    \/ AcceptsRoutineInsert
    \/ AcceptsRoutineExpand
    \/ AcceptsRoutineGo
    \/ AcceptsRoutineAdd
    \/ AcceptsRoutineDone
    \/ RoutineCall
    \/ RoutineSelect

Spec == Init /\ [][Next]_vars

\* The caller that holds the node values and determinizes them, on its own
DetInit == Init /\ arg.build = "literal" /\ arg.det \in {"ToDFA", "recursiveMerge"}

DetNext ==
    \/ ToDFA
    \/ MergeRecurse
    \/ MergeReturn
    \/ DFAacceptsCall

DetSpec == DetInit /\ [][DetNext]_vars

-----------------------------------------------------------------------------
(* compositNodeName on its own: a caller hands it two lists of names *)

MaxNames == 2

\* The names "S0", "S1" and "S0S1"
NameParts == {S0, S1, S0 \o S1}
NameLists == SeqsUpTo(NameParts, MaxNames) \ {<<>>}

NameInit ==
    /\ arg \in {[names1 |-> l1, names2 |-> l2] : l1 \in NameLists, l2 \in NameLists}
    /\ heap = <<>>
    /\ aut = NewAutomata
    /\ dfa = NewAutomata
    /\ pc = "names"
    /\ idx = 1
    /\ stack = <<>>
    /\ word = <<>>
    /\ dfaResult = "none"
    /\ found = FALSE
    /\ done = FALSE
    /\ wg = 0
    /\ checked = EmptyMap
    /\ tasks = <<>>
    /\ waiter = "idle"
    /\ result = "none"
    /\ panic = ""

\* newName := compositNodeName(newNameParts) (line 266) for each of the two
\* lists; `stack` receives the two strings returned
CompositNodeNameCall ==
    /\ pc = "names"
    /\ stack' = <<compositNodeName(arg.names1), compositNodeName(arg.names2)>>
    /\ pc' = "named"
    /\ UNCHANGED <<arg, heap, aut, dfa, idx, word, dfaResult, found, done, wg,
                   checked, tasks, waiter, result, panic>>

NameNext == CompositNodeNameCall

NameSpec == NameInit /\ [][NameNext]_vars

-----------------------------------------------------------------------------
(* The language of the triples, as the claims state it *)

TripleSet == Range(arg.ts)

\* States reached from S by one transition labelled sym
Move(S, sym) == {t[3] : t \in {u \in TripleSet : u[1] \in S /\ u[2] = sym}}

RECURSIVE EpsilonReach(_)
EpsilonReach(S) ==
    LET T == S \cup Move(S, Eps)
    IN  IF T = S THEN S ELSE EpsilonReach(T)

\* The states some path reaches having consumed w left to right, each symbol
\* by one transition labelled with it, epsilon moves consuming nothing
RECURSIVE ReachedBy(_)
ReachedBy(w) ==
    IF w = <<>> THEN EpsilonReach({arg.start})
    ELSE EpsilonReach(Move(ReachedBy(SubSeq(w, 1, Len(w) - 1)), w[Len(w)]))

PathExists(w) == ReachedBy(w) \cap arg.finals # {}

\* The sequential search over pairs <<state, number of symbols consumed>>,
\* each pair expanded once
PairSuccessors(w, p) ==
    {<<q, p[2]>> : q \in Move({p[1]}, Eps)}
    \cup (IF p[2] < Len(w)
          THEN {<<q, p[2] + 1>> : q \in Move({p[1]}, w[p[2] + 1])}
          ELSE {})

RECURSIVE Search(_, _, _)
Search(w, visited, frontier) ==
    IF frontier = {} THEN visited
    ELSE LET p == CHOOSE x \in frontier : TRUE
             fresh == PairSuccessors(w, p) \ (visited \cup frontier)
         IN  Search(w, visited \cup {p}, (frontier \ {p}) \cup fresh)

SequentialAccepts(w) ==
    \E p \in Search(w, {}, {<<arg.start, 0>>}) :
        p[2] = Len(w) /\ p[1] \in arg.finals

\* Accepts has been called
InAccepts == pc \in {"select", "returned"}

\* The program has come to rest: Accepts returned, or a panic ended it
AtRest == panic # "" \/ pc = "returned"

HasEpsilonCycle ==
    \E q \in {t[1] : t \in TripleSet} : q \in EpsilonReach(Move({q}, Eps))

\* The transition maps of the nodes of the automaton recursiveMerge fills
DfaMaps == IF dfa.nodes.nil THEN {}
           ELSE {heap[dfa.nodes.m[n].Transitions] : n \in DOMAIN dfa.nodes.m}

\* The call of ToDFA (or of recursiveMerge by the caller) has been made / has
\* returned its automaton
Determinizing ==
    arg.det \in {"ToDFA", "recursiveMerge"} /\ pc \notin {"make_loop", "built"}
Determinized ==
    arg.det \in {"ToDFA", "recursiveMerge"} /\ pc \notin {"make_loop", "built", "merge"}

\* Some (state, symbol) of the source has several destinations
HasChoice ==
    \E t1, t2 \in TripleSet : t1[1] = t2[1] /\ t1[2] = t2[2] /\ t1[3] # t2[3]

HasEpsilon == \E t \in TripleSet : t[2] = Eps

-----------------------------------------------------------------------------
(* The claims *)

\* C1: for every NFA built by MakeAutomata and every input sequence, Accepts
\* on the NFA's start state returns the same boolean as acceptance on the
\* start state of ToDFA(NFA).  Stated on the outcome: once the caller that
\* determinizes with ToDFA and then asks both has come to rest, both answers
\* were given and are equal.
C1_DeterminizationPreservesAcceptance ==
    (arg.build = "MakeAutomata" /\ arg.det = "ToDFA" /\ arg.ts # <<>> /\ AtRest) =>
        /\ result \in {"true", "false"}
        /\ dfaResult = result

\* C2: for a fixed automaton and input, Accepts returns the same boolean under
\* every interleaving of its goroutines, and that boolean is the result of the
\* sequential search over (state, remaining input) pairs.
C2_AcceptsIsSequentialSearch ==
    pc = "returned" => result = Bool(SequentialAccepts(word))

\* C3: Accepts(input) returns true if and only if some path from the start
\* state to a final state consumes the whole input left to right, each symbol
\* by exactly one transition labelled with it, epsilon moves consuming nothing.
C3_AcceptsIffPath ==
    (InAccepts /\ AtRest) => ((result = "true") <=> PathExists(word))

\* C4: in a run in which some task reaches a final state with empty remaining
\* input (it closes found), the channel done never becomes ready and the
\* select of Accepts never returns false.
C4_DoneNeverReadyAfterFound ==
    (InAccepts /\ found) => (~done /\ result # "false")

\* C5: Accepts never faults: no task reads the first symbol of an empty input,
\* writes into a missing entry of the visited set or drives the completion
\* counter negative.
C5_AcceptsNeverFaults ==
    InAccepts => panic = ""

\* C6: on an automaton containing epsilon cycles Accepts eventually returns
\* for every finite input: as long as it has not returned, some goroutine can
\* take a step.
C6_AcceptsReturnsOnEpsilonCycles ==
    (HasEpsilonCycle /\ pc = "select") => ENABLED Next

\* C7: for the automaton built from (S0,eps,S1), (S0,a,S2), (S1,b,S3) with
\* start S0 and finals {S2,S3}: Accepts([a]) is true, Accepts([b]) is true and
\* Accepts([a,b]) is false.  Stated on the outcome: the caller that builds
\* Scenario B and asks comes to rest with the answer, and the answer is that.
C7_ScenarioB ==
    (arg.ts = ScenarioB.ts /\ arg.start = ScenarioB.start
        /\ arg.finals = ScenarioB.finals /\ arg.build # "AddTransition"
        /\ arg.det = "none" /\ AtRest) =>
        /\ pc = "returned"
        /\ word = <<"a">> => result = "true"
        /\ word = <<"b">> => result = "true"
        /\ word = <<"a", "b">> => result = "false"

\* C8: in the automaton returned by ToDFA every (state, symbol) pair maps to
\* at most one destination, also when a symbol of the source has several.
\* Stated on the outcome: ToDFA, once called on such a source, returns an
\* automaton (it does not end in a panic) whose every slice of destinations
\* has at most one element.
C8_DfaSingleDestination ==
    (arg.det = "ToDFA" /\ HasChoice /\ Determinizing) =>
        /\ panic = ""
        /\ Determinized => \A m \in DfaMaps : \A k \in DOMAIN m : Len(m[k]) <= 1

\* C9: no state of the automaton that ToDFA returns (the one its
\* recursiveMerge has finished filling) has a transition on the epsilon
\* symbol " ", for a source NFA that contains epsilon transitions.
C9_DfaHasNoEpsilon ==
    (HasEpsilon /\ Determinized) => \A m \in DfaMaps : Eps \notin DOMAIN m

\* C10: once AddTransition has returned for a triple (from, symbol, to), called
\* by MakeAutomata or by the caller, the state named `to` is among the
\* destinations of (from, symbol), also when several triples share (from,
\* symbol).
C10_TransitionsRecorded ==
    (arg.build \in {"MakeAutomata", "AddTransition"} /\ panic = "") =>
        \A k \in 1..(idx - 1) :
            LET t == arg.ts[k]
                dests == Lookup(heap, NodeAt(aut, t[1]), t[2])
            IN  \E j \in DOMAIN dests : dests[j].Name = t[3]

\* Every reference to a state of the source automaton: the entries of its
\* state collection, the start state GetStart returns, and the destination
\* entries of its states' transitions
SourceRefs ==
    (IF aut.nodes.nil THEN {} ELSE {aut.nodes.m[n] : n \in DOMAIN aut.nodes.m})
    \cup {GetStart(aut)}
    \cup UNION {Range(Lookup(heap, NodeAt(aut, n), sym)) :
                    n \in (IF aut.nodes.nil THEN {} ELSE DOMAIN aut.nodes.m),
                    sym \in Symbols}

\* C11: after MakeAutomata(transitions, start, finals) a state is final if and
\* only if its name is in finals, through every reference to it.  Stated on
\* the outcome: the caller of MakeAutomata comes to rest with the automaton
\* returned and every reference to a state final exactly when named in finals.
C11_FinalityThroughEveryReference ==
    (arg.build = "MakeAutomata" /\ arg.ts # <<>> /\ arg.finals # {} /\ AtRest) =>
        /\ pc # "make_loop"
        /\ \A n \in SourceRefs : n.Final <=> n.Name \in arg.finals

\* C12: MakeAutomata never fails on structurally valid triples: every state
\* name not seen before is created on first reference, and a start name that
\* appears in no transition is created as an isolated state.
C12_MakeAutomataNeverFails ==
    arg.build = "MakeAutomata" => panic = ""

\* C13: for every state s, EpsilonClosure(s) returns exactly the states
\* reachable from s by zero or more epsilon transitions: s itself is among
\* them, none that is not epsilon-reachable, and none twice (the slice is as
\* long as the set of reachable names), also when the epsilon edges form a
\* cycle.
C13_EpsilonClosureIsReachability ==
    arg.build = "literal" =>
        \A name \in Range(AllNames) :
            LET s == NodeAt(aut, name)
                closure == EpsilonClosure(heap, s)
            IN  /\ s \in closure
                /\ {n.Name : n \in closure} = EpsilonReach({name})
                /\ \A c \in ClosureOrders(heap, s) :
                       Len(c) = Cardinality(EpsilonReach({name}))

\* C13, its case: recursiveMerge has taken the closure of a start state that
\* lies on an epsilon cycle through three states and has merged all three
C13_ClosureOfCycleTaken ==
    /\ Determinized
    /\ HasEpsilonCycle
    /\ Cardinality(EpsilonClosure(heap, aut.beginning)) = 3
    /\ Range(GetStart(dfa).Name) = {0, 1, 2}

\* C14: ToDFA leaves the source NFA unchanged: from the call on, the source
\* automaton's set of states, each state's transition destinations, each
\* state's finality and the start state are what they were before the call,
\* and no composite state is created in the source automaton.
C14_ToDFALeavesSourceUnchanged ==
    (arg.build = "literal" /\ Determinizing) =>
        /\ aut = LiteralAutomata(arg)
        /\ Len(heap) >= Len(AllNames)
        /\ SubSeq(heap, 1, Len(AllNames)) = LiteralHeap(arg)

\* C14, its case: the subset construction has run to its end on a source
\* with transitions and has created several composite states
C14_CompositesCreated ==
    /\ Determinized
    /\ arg.ts # <<>>
    /\ Cardinality(DOMAIN dfa.nodes.m) >= 2

\* States reached from S by transitions of any label
RECURSIVE AnyReach(_)
AnyReach(S) ==
    LET T == S \cup UNION {Move(S, sym) : sym \in Symbols}
    IN  IF T = S THEN S ELSE AnyReach(T)

\* Some symbol transition lies on a cycle
HasSymbolCycle ==
    \E t \in TripleSet : t[2] # Eps /\ t[1] \in AnyReach({t[3]})

\* C15: ToDFA terminates on every finite NFA, including NFAs whose symbol
\* transitions form cycles (a composite already materialized is reused).
\* Stated on the steps: as long as ToDFA has been called and has not returned
\* its automaton, a call of recursiveMerge is in progress and has not faulted,
\* so that it can take its next step (MergeRecurse or MergeReturn).
C15_ToDFATerminates ==
    (arg.det = "ToDFA" /\ HasSymbolCycle /\ pc = "merge") =>
        (panic = "" /\ stack # <<>>)

\* C16 (under NameSpec): the key compositNodeName computes is a function of
\* the member set only and is injective on sets: two lists of names get the
\* same key exactly when they hold the same set of names, whatever the order
\* or repetition of the members.
C16_CompositeKeyInjectiveOnSets ==
    pc = "named" =>
        ((Range(arg.names1) = Range(arg.names2)) <=> (stack[1] = stack[2]))

\* The member set of a composite state, read from its name
Members(name) == {<<c>> : c \in Range(name)}

\* The references to composite states that a caller reaches in the automaton
\* recursiveMerge fills: its start state and the destination entries of its
\* states' transitions
DfaRefs ==
    {GetStart(dfa)}
    \cup UNION {UNION {Range(m[k]) : k \in DOMAIN m} : m \in DfaMaps}

\* C17: in the automaton ToDFA returns (the one its recursiveMerge has
\* finished filling) a composite state is final if and only if at least one
\* NFA state of its member set is final, through every reference to it,
\* including a destination obtained by reusing a composite made earlier.
C17_CompositeFinalThroughEveryReference ==
    Determinized =>
        \A n \in DfaRefs : n.Final <=> (Members(n.Name) \cap arg.finals # {})

\* The goroutines that have not called wg.Done() yet
Unsignalled == {i \in DOMAIN tasks : tasks[i].dones = 0}

\* C18: every acceptsRoutine task that is spawned signals its completion to
\* the join exactly once on every exit path: no task has exited without
\* calling wg.Done(), none has called it twice, and every task that may yet
\* call it is registered in the counter (a child is added before it can
\* signal).
C18_EveryTaskSignalsOnce ==
    /\ \A i \in DOMAIN tasks :
          /\ tasks[i].dones <= 1
          /\ tasks[i].pc = "exit" => tasks[i].dones = 1
    /\ wg >= Cardinality(Unsignalled)

\* C19: the check-and-insert on the visited set is atomic: each (state,
\* remaining input) pair is expanded (its successors started) by at most one
\* task during one call.
C19_PairExpandedByOneTask ==
    \A i, j \in DOMAIN tasks :
        (i # j /\ tasks[i].expanded /\ tasks[j].expanded) =>
            <<tasks[i].node.Name, tasks[i].input>> # <<tasks[j].node.Name, tasks[j].input>>

\* C20: the found signal is fired at most once per call: no task closes the
\* channel found when it is closed already.
C20_FoundClosedOnce ==
    panic # ClosedClose

-----------------------------------------------------------------------------
(* What the model shows beyond the claims' formulas *)

\* new(automata) leaves nodes nil, so the first CreateNode of MakeAutomata and
\* of ToDFA panics: neither ever returns.
MakeAutomataNeverReturns == arg.build = "MakeAutomata" => pc = "make_loop"
ToDFANeverReturns == arg.det = "ToDFA" => ~Determinized

\* On an automata whose nodes map was made, recursiveMerge leaves exactly one
\* destination for every key it copied (line 246).
MergeLeavesSingletons ==
    Determinized => \A m \in DfaMaps : \A k \in DOMAIN m : Len(m[k]) = 1

\* In a call of Accepts no acceptsRoutine goroutine gets past line 167: only
\* the first one exists.
OnlyTheFirstRoutineRuns == InAccepts => Len(tasks) <= 1

\* Accepts returns only on the empty input.
AcceptsReturnsOnlyOnEmptyInput == pc = "returned" => word = <<>>

\* The two statements of the language agree.
ReferencesAgree == \A w \in Inputs : PathExists(w) <=> SequentialAccepts(w)

\* On an automata whose nodes map was made, recursiveMerge always has a next
\* step until it returns: composites that exist are reused (line 215).
MergeOnMadeMapProceeds ==
    (arg.det = "recursiveMerge" /\ pc = "merge") => (panic = "" /\ stack # <<>>)

\* In a call of Accepts itself the first goroutine never gets past line 167,
\* so no second goroutine exists that could signal twice, expand a pair again
\* or close found again.
AcceptsNeverFansOut ==
    InAccepts => /\ C18_EveryTaskSignalsOnce
                 /\ C19_PairExpandedByOneTask
                 /\ C20_FoundClosedOnce

====
